---- MODULE Spec2Model ----
(***************************************************************************)
(* The event-driven notification pipeline of eduplatform_backend:         *)
(*   shared/messaging/kafka_consumer.py   KafkaConsumerManager            *)
(*   services/notification_service/app/handlers/user_events.py            *)
(*   services/notification_service/main.py  lifespan                      *)
(*   shared/database/connection.py, shared/database/repository.py         *)
(* One partition of the subscribed topics is modelled as the sequence     *)
(* `log`; the notification table is the sequence `store` of committed     *)
(* rows.  The consume task and the handler it awaits advance one await    *)
(* point at a time.                                                        *)
(***************************************************************************)
EXTENDS Integers, Sequences, FiniteSets, TLC

\* ---------------------------------------------------------------- bounds
MaxLog == 2        \* records ever appended to the partition
MaxStarts == 2     \* calls of KafkaConsumerManager.start() in one behaviour
MaxConns == 2      \* connections the producer opens in one behaviour
MaxSends == 2      \* calls of KafkaProducerManager.send_event in one behaviour
MaxRegs == 3       \* calls of AuthService.register in one behaviour

\* ------------------------------------------------------- values on the wire
Users == {"u1"}
BadUuid == "not-a-uuid"
NoRow == [status |-> "none"]
Offsets == 0 .. (MaxLog - 1)

\* event_type values a JSON record can carry: the two registered strings, an
\* unregistered string, no event_type key at all (None), and a JSON list or
\* object (unhashable as a dict key).
EventTypes == {"user.registered", "user.login", "unknown.thing", "None", "unhashable"}

\* Record values with event id eid: bytes that json.loads rejects, JSON that is
\* not an object, or a JSON object with an event_type and, for
\* user.registered, a user_id (a UUID string or a string uuid.UUID rejects).
RecordsWith(eid) ==
    {[vkind |-> "malformed", event_type |-> "None", user_id |-> "None", event_id |-> eid],
     [vkind |-> "nondict", event_type |-> "None", user_id |-> "None", event_id |-> eid]}
    \cup {[vkind |-> "dict", event_type |-> t, user_id |-> "None", event_id |-> eid] :
              t \in EventTypes \ {"user.registered"}}
    \cup {[vkind |-> "dict", event_type |-> "user.registered", user_id |-> u, event_id |-> eid] :
              u \in Users \cup {BadUuid}}

VARIABLES
    log,        \* the partition: sequence of record values, offset = index - 1
    committed,  \* offset committed for group "notification-service"
    consumer,   \* KafkaConsumerManager._consumer: "none" | "created" | "started"
    running,    \* KafkaConsumerManager._running
    stopping,   \* stop() is suspended in line 39
    closed,     \* the client the consume task iterates has been stopped
    position,   \* the client's next offset to return
    starts,     \* number of start() calls that created a client
    pc,         \* the consume task: "idle" | "fetch" | "handler" | "returned" | "raised"
    hpc,        \* per offset, the await point of its handler invocation
    sess,       \* per offset, the AsyncSession of its handler invocation: "none" | "open"
    tx,         \* per offset, the row flushed but not committed in that session
    store,      \* committed rows of table notifications
    last,       \* history: offset and outcome of the handler invocation (offset -1:
                \* of the consume call) that ended last
    producer,   \* KafkaProducerManager._producer: "none" | "created" | "started"
    conn,       \* the broker connection of the client in _producer, 0 for none
    conns,      \* the producer connections that are open
    opened,     \* number of producer connections opened so far
    msgs,       \* history: the send_event calls, with how each ended
    call,       \* history: the KafkaProducerManager call that ended last
    event,      \* the event instance a service constructed
    message,    \* to_kafka_message() of that instance
    decoded,    \* from_kafka_message(message) of an event class
    users,      \* committed rows of table users, by their id
    regs        \* history: the AuthService.register calls, with how each ended

pipelineVars == <<log, committed, consumer, running, stopping, closed, position,
                  starts, pc, hpc, sess, tx, store, last>>
publisherVars == <<producer, conn, conns, opened, msgs, call>>
envelopeVars == <<event, message, decoded>>
registrationVars == <<users, regs>>
vars == <<pipelineVars, publisherVars, envelopeVars, registrationVars>>

brokerVars == <<log, committed>>
mgrVars == <<consumer, running, stopping, closed, position, starts>>
dbVars == <<sess, tx, store>>
NoLast == [off |-> -1, res |-> "none"]
NoCall == [op |-> "none", res |-> "none"]
NoEvent == [cls |-> "none"]

Init ==
    /\ log = <<>>
    /\ committed = 0
    /\ consumer = "none"
    /\ running = FALSE
    /\ stopping = FALSE
    /\ closed = FALSE
    /\ position = 0
    /\ starts = 0
    /\ pc = "idle"
    /\ hpc = [o \in Offsets |-> "none"]
    /\ sess = [o \in Offsets |-> "none"]
    /\ tx = [o \in Offsets |-> NoRow]
    /\ store = <<>>
    /\ last = NoLast
    /\ producer = "none"
    /\ conn = 0
    /\ conns = {}
    /\ opened = 0
    /\ msgs = <<>>
    /\ call = NoCall
    /\ event = NoEvent
    /\ message = NoEvent
    /\ decoded = NoEvent
    /\ users = {}
    /\ regs = <<>>

Rec(o) == log[o + 1]
InFlight == {o \in Offsets : hpc[o] # "none"}

\* ------------------------------------------------------------------ broker
\* A record is appended to the partition.  send_event writes JSON objects;
\* any other writer of the topic can leave bytes of any shape.
BrokerAppend ==
    /\ Len(log) < MaxLog
    /\ \E r \in RecordsWith(Len(log) + 1) : log' = Append(log, r)
    /\ UNCHANGED <<committed, mgrVars, pc, hpc, dbVars, last>>
    /\ UNCHANGED publisherVars
    /\ UNCHANGED <<envelopeVars, registrationVars>>

\* enable_auto_commit=True: the client commits its position in the background,
\* whatever the handler of the records it returned is doing.
AutoCommit ==
    /\ consumer = "started"
    /\ committed < position
    /\ committed' = position
    /\ UNCHANGED <<log, mgrVars, pc, hpc, dbVars, last>>
    /\ UNCHANGED publisherVars
    /\ UNCHANGED <<envelopeVars, registrationVars>>

\* --------------------------------------------------- KafkaConsumerManager
\* start(): creates and starts a client when there is none; the group resumes
\* from its committed offset (auto_offset_reset applies when there is none).
\* Variant: every new client starts from the earliest offset.
ResumeFromEarliest(c) == 0

\* The offset a client that joins the group starts from.
ResumeOffset(c) == c

Start ==
    /\ consumer = "none"
    /\ starts < MaxStarts
    /\ consumer' = "started"
    /\ position' = ResumeOffset(committed)
    /\ starts' = starts + 1
    /\ UNCHANGED <<brokerVars, running, stopping, closed, pc, hpc, dbVars, last>>
    /\ UNCHANGED publisherVars
    /\ UNCHANGED <<envelopeVars, registrationVars>>

\* start() when the broker cannot be reached: the client is created and
\* assigned (line 25), its start() raises (line 32) and the client stays in
\* _consumer.
StartFails ==
    /\ consumer = "none"
    /\ consumer' = "created"
    /\ UNCHANGED <<brokerVars, running, stopping, closed, position, starts, pc,
                   hpc, dbVars, last>>
    /\ UNCHANGED publisherVars
    /\ UNCHANGED <<envelopeVars, registrationVars>>

\* stop() up to its await: _running = False, then the client is asked to stop.
StopBegin ==
    /\ ~stopping
    /\ running' = FALSE
    /\ stopping' = (consumer # "none")
    /\ consumer # "none" \/ running
    /\ UNCHANGED <<brokerVars, consumer, closed, position, starts, pc, hpc,
                   dbVars, last>>
    /\ UNCHANGED publisherVars
    /\ UNCHANGED <<envelopeVars, registrationVars>>

\* The client's stop() completes (it commits the position on close) and
\* stop() clears _consumer.
StopFinish ==
    /\ stopping
    /\ stopping' = FALSE
    /\ consumer' = "none"
    /\ closed' = TRUE
    /\ committed' = position
    /\ UNCHANGED <<log, running, position, starts, pc, hpc, dbVars, last>>
    /\ UNCHANGED publisherVars
    /\ UNCHANGED <<envelopeVars, registrationVars>>

\* Variant: consume does not look at _consumer.
ConsumerMissingNever(c) == FALSE

\* Line 51, `if not self._consumer`.
ConsumerMissing(c) == c = "none"

\* consume() up to the loop: RuntimeError without a client, else subscribe and
\* _running = True.  On a client that was never started the iterator raises
\* at once: the error is caught at line 76 and consume returns.
ConsumeCall ==
    /\ pc \in {"idle", "returned", "raised"}
    /\ IF ConsumerMissing(consumer)
       THEN /\ pc' = "raised"
            /\ last' = [off |-> -1, res |-> "not_started"]
            /\ UNCHANGED <<running, closed>>
       ELSE IF consumer = "started"
       THEN /\ pc' = "fetch"
            /\ running' = TRUE
            /\ closed' = FALSE
            /\ UNCHANGED last
       ELSE /\ pc' = "returned"
            /\ running' = FALSE
            /\ last' = [off |-> -1, res |-> "client_error"]
            /\ UNCHANGED closed
    /\ UNCHANGED <<brokerVars, consumer, stopping, position, starts, hpc, dbVars>>
    /\ UNCHANGED publisherVars
    /\ UNCHANGED <<envelopeVars, registrationVars>>

\* ------------------------------------------------------- UserEventHandler
\* Variant: the lookup falls back to handle_user_login.
HandlerForDefault(t) ==
    CASE t = "user.registered" -> "handle_user_registered"
      [] OTHER -> "handle_user_login"

\* Variant: user.login is routed to handle_user_registered.
HandlerForLoginNotifies(t) ==
    CASE t \in {"user.registered", "user.login"} -> "handle_user_registered"
      [] OTHER -> "none"

\* route_event's table lookup, handlers.get(event_type): the bound method for
\* the two registered strings, None for any other hashable key.
HandlerFor(t) ==
    CASE t = "user.registered" -> "handle_user_registered"
      [] t = "user.login" -> "handle_user_login"
      [] OTHER -> "none"

\* uuid.UUID(user_id) accepts the string.
ValidUuid(u) == u \in Users

\* An event_id string that uuid.UUID rejects.
BadEventId == 0

\* uuid.UUID(event_id) accepts the string.
ValidEventId(e) == e # BadEventId

\* Variant: notification_data is built from the strings as they are.
PayloadOkAlways(r) == TRUE

\* Lines 41-48: notification_data can be built, uuid.UUID accepts both the
\* user_id and the event_id of the event.
PayloadOk(r) == ValidUuid(r.user_id) /\ ValidEventId(r.event_id)

WelcomeTitle == <<"Welcome", "to", "EduPlatform!">>

\* notification_data of handle_user_registered.
NotificationData(r) ==
    [user_id |-> r.user_id,
     type |-> "in_app",
     title |-> WelcomeTitle,
     event_type |-> "user.registered",
     event_id |-> r.event_id]

\* repo.create: the row as inserted, with the column defaults of Notification.
CreateRow(d) ==
    [user_id |-> d.user_id, type |-> d.type, title |-> d.title,
     event_type |-> d.event_type, event_id |-> d.event_id,
     status |-> "pending", sent_at |-> FALSE, is_read |-> FALSE]

\* Variant: the UPDATE of mark_as_sent changes nothing.
MarkAsSentNoUpdate(row) == row

\* repo.mark_as_sent: UPDATE status and sent_at of the row.
MarkAsSent(row) == [row EXCEPT !.status = "sent", !.sent_at = TRUE]

\* session.commit(): the flushed row becomes visible in the table.
CommitRow(st, row) == Append(st, row)

\* Variant: closing a session commits what it holds.
RollbackCommits(st, row) == IF row = NoRow THEN st ELSE Append(st, row)

\* Closing a session that holds an uncommitted row discards the row.
Rollback(st, row) == st

\* ------------------------------------------------------- the consume loop
\* Variant: the handler is started as a task of its own and not awaited.
DispatchDetached == "fetch"

\* `await handler(message.value)`: the loop is suspended until the handler ends.
Dispatch == "handler"

\* Variant: no inner try/except, an exception of the handler reaches line 76.
AfterHandlerPropagates(raised) == IF raised THEN "returned" ELSE "fetch"

\* Variant: the loop is left after the first handler that returns.
AfterHandlerBreaks(raised) == IF raised THEN "fetch" ELSE "returned"

\* The inner try/except of consume: after the handler returned, and after it
\* raised an Exception, the loop asks the iterator for the next record.
AfterHandler(raised) == "fetch"

\* The handler invocation of offset o ends with outcome w.
HandlerEnd(o, w, raised) ==
    /\ hpc' = [hpc EXCEPT ![o] = "none"]
    /\ last' = [off |-> o, res |-> w]
    /\ pc' = AfterHandler(raised)

\* Variant: the loop does not look at _running.
KeepGoingAlways(r) == TRUE

\* Line 62, `if not self._running: break`: the loop goes on while the flag is set.
KeepGoing(r) == r

\* The iterator returns the record at the client's position (lines 61-69).
Fetch ==
    /\ pc = "fetch"
    /\ ~closed
    /\ position < Len(log)
    /\ LET o == position
           r == Rec(o)
       IN  IF r.vkind = "malformed"
           THEN \* the value deserializer raises inside the iterator: line 76
                /\ pc' = "returned"
                /\ running' = FALSE
                /\ position' \in {position, position + 1}
                /\ last' = [off |-> o, res |-> "undecodable"]
                /\ UNCHANGED hpc
           ELSE IF ~KeepGoing(running)
           THEN \* line 62: break
                /\ pc' = "returned"
                /\ running' = FALSE
                /\ position' = position + 1
                /\ UNCHANGED <<hpc, last>>
           ELSE IF r.vkind = "nondict"
           THEN \* message.value.get raises inside the inner try
                /\ pc' = AfterHandler(TRUE)
                /\ position' = position + 1
                /\ last' = [off |-> o, res |-> "unreadable"]
                /\ UNCHANGED <<running, hpc>>
           ELSE /\ pc' = Dispatch
                /\ position' = position + 1
                /\ hpc' = [hpc EXCEPT ![o] = "route"]
                /\ UNCHANGED <<running, last>>
    /\ UNCHANGED <<brokerVars, consumer, stopping, closed, starts, dbVars>>
    /\ UNCHANGED publisherVars
    /\ UNCHANGED <<envelopeVars, registrationVars>>

\* The iterator of a stopped client ends the loop (StopAsyncIteration).
FetchStopped ==
    /\ pc = "fetch"
    /\ closed
    /\ pc' = "returned"
    /\ running' = FALSE
    /\ UNCHANGED <<brokerVars, consumer, stopping, closed, position, starts, hpc,
                   dbVars, last>>
    /\ UNCHANGED publisherVars
    /\ UNCHANGED <<envelopeVars, registrationVars>>

\* route_event up to the first await of the handler it selects.
Route(o) ==
    /\ hpc[o] = "route"
    /\ LET r == Rec(o)
       IN  IF r.event_type = "unhashable"
           THEN \* handlers.get raises TypeError out of route_event
                /\ HandlerEnd(o, "raised", TRUE)
                /\ UNCHANGED sess
           ELSE IF HandlerFor(r.event_type) = "none"
           THEN /\ HandlerEnd(o, "dropped", FALSE)
                /\ UNCHANGED sess
           ELSE IF HandlerFor(r.event_type) = "handle_user_login"
           THEN /\ HandlerEnd(o, "login", FALSE)
                /\ UNCHANGED sess
           ELSE \* handle_user_registered: the session is opened, then
                \* notification_data is built
                /\ sess' = [sess EXCEPT ![o] = "open"]
                /\ IF PayloadOk(r)
                   THEN /\ hpc' = [hpc EXCEPT ![o] = "create"]
                        /\ UNCHANGED <<pc, last>>
                   ELSE HandlerEnd(o, "failed", FALSE)
    /\ UNCHANGED <<brokerVars, mgrVars, tx, store>>
    /\ UNCHANGED publisherVars
    /\ UNCHANGED <<envelopeVars, registrationVars>>

\* repo.create(notification_data)
Create(o, ok) ==
    /\ hpc[o] = "create"
    /\   IF ok
         THEN /\ tx' = [tx EXCEPT ![o] = CreateRow(NotificationData(Rec(o)))]
              /\ hpc' = [hpc EXCEPT ![o] = "mark"]
              /\ UNCHANGED <<pc, last>>
         ELSE /\ HandlerEnd(o, "failed", FALSE)
              /\ UNCHANGED tx
    /\ UNCHANGED <<brokerVars, mgrVars, sess, store>>
    /\ UNCHANGED publisherVars
    /\ UNCHANGED <<envelopeVars, registrationVars>>

\* repo.mark_as_sent(notification.id)
MarkSent(o, ok) ==
    /\ hpc[o] = "mark"
    /\   IF ok
         THEN /\ tx' = [tx EXCEPT ![o] = MarkAsSent(tx[o])]
              /\ hpc' = [hpc EXCEPT ![o] = "commit"]
              /\ UNCHANGED <<pc, last>>
         ELSE /\ HandlerEnd(o, "failed", FALSE)
              /\ UNCHANGED tx
    /\ UNCHANGED <<brokerVars, mgrVars, sess, store>>
    /\ UNCHANGED publisherVars
    /\ UNCHANGED <<envelopeVars, registrationVars>>

\* session.commit() in the handler
Commit(o, ok) ==
    /\ hpc[o] = "commit"
    /\   IF ok
         THEN /\ store' = CommitRow(store, tx[o])
              /\ tx' = [tx EXCEPT ![o] = NoRow]
              /\ hpc' = [hpc EXCEPT ![o] = "exit"]
              /\ UNCHANGED <<pc, last>>
         ELSE /\ HandlerEnd(o, "failed", FALSE)
              /\ UNCHANGED <<tx, store>>
    /\ UNCHANGED <<brokerVars, mgrVars, sess>>
    /\ UNCHANGED publisherVars
    /\ UNCHANGED <<envelopeVars, registrationVars>>

\* The loop over get_db_session() asks for a second session: the generator
\* leaves db.session() (commit of nothing, close) and the handler returns.
SessionExit(o) ==
    /\ hpc[o] = "exit"
    /\ sess' = [sess EXCEPT ![o] = "none"]
    /\ HandlerEnd(o, "saved", FALSE)
    /\ UNCHANGED <<brokerVars, mgrVars, tx, store>>
    /\ UNCHANGED publisherVars
    /\ UNCHANGED <<envelopeVars, registrationVars>>

\* The generator abandoned by a failed handler is finalized later: the
\* session is closed without a commit.
Finalize(o) ==
    /\ sess[o] = "open"
    /\ hpc[o] = "none"
    /\ sess' = [sess EXCEPT ![o] = "none"]
    /\ store' = Rollback(store, tx[o])
    /\ tx' = [tx EXCEPT ![o] = NoRow]
    /\ UNCHANGED <<brokerVars, mgrVars, pc, hpc, last>>
    /\ UNCHANGED publisherVars
    /\ UNCHANGED <<envelopeVars, registrationVars>>

AwaitPoints == {"create", "mark", "commit", "exit"}

\* Variant: consume has no `except asyncio.CancelledError`.
OnCancelledPropagates == "raised"

\* Lines 74-75, `except asyncio.CancelledError`: the CancelledError is caught
\* and consume returns.
OnCancelled == "returned"

\* lifespan's consumer_task.cancel(): CancelledError is raised at the await
\* the task is suspended in; only `except asyncio.CancelledError` catches it.
Cancel ==
    /\ \/ /\ pc = "fetch"
          /\ UNCHANGED <<hpc, sess, last>>
       \/ /\ pc = "handler"
          /\ \E o \in Offsets :
               /\ hpc[o] \in AwaitPoints
               /\ hpc' = [hpc EXCEPT ![o] = "none"]
               /\ last' = [off |-> o, res |-> "cancelled"]
               /\ sess' = [sess EXCEPT ![o] = IF hpc[o] = "exit" THEN "none" ELSE @]
    /\ pc' = OnCancelled
    /\ running' = FALSE
    /\ UNCHANGED <<brokerVars, consumer, stopping, closed, position, starts, tx, store>>
    /\ UNCHANGED publisherVars
    /\ UNCHANGED <<envelopeVars, registrationVars>>

\* The service process dies; the broker and the database keep their state and
\* the next process starts from a fresh KafkaConsumerManager.
Crash ==
    /\ starts < MaxStarts
    /\ consumer # "none" \/ pc # "idle"
    /\ consumer' = "none"
    /\ running' = FALSE
    /\ stopping' = FALSE
    /\ closed' = FALSE
    /\ pc' = "idle"
    /\ hpc' = [o \in Offsets |-> "none"]
    /\ sess' = [o \in Offsets |-> "none"]
    /\ tx' = [o \in Offsets |-> NoRow]
    /\ last' = NoLast
    /\ UNCHANGED <<brokerVars, position, starts, store>>
    /\ UNCHANGED publisherVars
    /\ UNCHANGED <<envelopeVars, registrationVars>>

\* lifespan's startup: a new manager, start(), then the consume task.
LifespanStartup ==
    /\ pc = "idle"
    /\ consumer = "none"
    /\ starts < MaxStarts
    /\ consumer' = "started"
    /\ position' = ResumeOffset(committed)
    /\ starts' = starts + 1
    /\ running' = TRUE
    /\ closed' = FALSE
    /\ pc' = "fetch"
    /\ UNCHANGED <<brokerVars, stopping, hpc, dbVars, last>>
    /\ UNCHANGED publisherVars
    /\ UNCHANGED <<envelopeVars, registrationVars>>

Next ==
    \/ BrokerAppend
    \/ LifespanStartup
    \/ AutoCommit
    \/ Start
    \/ StopBegin
    \/ StopFinish
    \/ ConsumeCall
    \/ Fetch
    \/ FetchStopped
    \/ \E o \in Offsets : Route(o)
    \/ \E o \in Offsets, ok \in BOOLEAN : Create(o, ok)
    \/ \E o \in Offsets, ok \in BOOLEAN : MarkSent(o, ok)
    \/ \E o \in Offsets, ok \in BOOLEAN : Commit(o, ok)
    \/ \E o \in Offsets : SessionExit(o)
    \/ \E o \in Offsets : Finalize(o)
    \/ Cancel
    \/ Crash

Spec == Init /\ [][Next]_vars

\* The pipeline left alone: nobody stops, cancels or kills the consumer and
\* every call on the notification store succeeds.  The event loop runs the
\* consume task whenever it can take a step.
ConsumerStep ==
    \/ LifespanStartup
    \/ Fetch
    \/ \E o \in Offsets : Route(o)
    \/ \E o \in Offsets : Create(o, TRUE)
    \/ \E o \in Offsets : MarkSent(o, TRUE)
    \/ \E o \in Offsets : Commit(o, TRUE)
    \/ \E o \in Offsets : SessionExit(o)

LiveNext ==
    \/ BrokerAppend
    \/ AutoCommit
    \/ \E o \in Offsets : Finalize(o)
    \/ ConsumerStep

LiveSpec == Init /\ [][LiveNext]_vars /\ WF_vars(ConsumerStep)

\* The manager's calls in any order, start() with the broker reachable or
\* not, with no cancellation, no crash and a store that always succeeds.
LifecycleNext ==
    \/ BrokerAppend
    \/ Start
    \/ StartFails
    \/ StopBegin
    \/ StopFinish
    \/ ConsumeCall
    \/ Fetch
    \/ FetchStopped
    \/ \E o \in Offsets : Route(o)
    \/ \E o \in Offsets : Create(o, TRUE)
    \/ \E o \in Offsets : MarkSent(o, TRUE)
    \/ \E o \in Offsets : Commit(o, TRUE)
    \/ \E o \in Offsets : SessionExit(o)
    \/ \E o \in Offsets : Finalize(o)

LifecycleSpec == Init /\ [][LifecycleNext]_vars

\* Payloads a user.registered record can carry: the user_id a UUID string, a
\* string uuid.UUID rejects or missing (None); the event_id a UUID string or
\* a string uuid.UUID rejects.
RegisteredWith(eid) ==
    {[vkind |-> "dict", event_type |-> "user.registered", user_id |-> u, event_id |-> e] :
        u \in Users \cup {BadUuid, "None"}, e \in {eid, BadEventId}}

\* A started consumer in its loop with two records on the partition, of any
\* shape and any user.registered payload.
HandlerInit ==
    /\ log \in {<<a, b>> : a \in RecordsWith(1) \cup RegisteredWith(1),
                          b \in RecordsWith(2) \cup RegisteredWith(2)}
    /\ committed = 0
    /\ consumer = "started"
    /\ running = TRUE
    /\ stopping = FALSE
    /\ closed = FALSE
    /\ position = 0
    /\ starts = 1
    /\ pc = "fetch"
    /\ hpc = [o \in Offsets |-> "none"]
    /\ sess = [o \in Offsets |-> "none"]
    /\ tx = [o \in Offsets |-> NoRow]
    /\ store = <<>>
    /\ last = NoLast
    /\ producer = "none"
    /\ conn = 0
    /\ conns = {}
    /\ opened = 0
    /\ msgs = <<>>
    /\ call = NoCall
    /\ event = NoEvent
    /\ message = NoEvent
    /\ decoded = NoEvent
    /\ users = {}
    /\ regs = <<>>

\* The loop and the handler, with a store that can fail at every call.
HandlerNext ==
    \/ Fetch
    \/ \E o \in Offsets : Route(o)
    \/ \E o \in Offsets, ok \in BOOLEAN : Create(o, ok)
    \/ \E o \in Offsets, ok \in BOOLEAN : MarkSent(o, ok)
    \/ \E o \in Offsets, ok \in BOOLEAN : Commit(o, ok)
    \/ \E o \in Offsets : SessionExit(o)
    \/ \E o \in Offsets : Finalize(o)

HandlerSpec == HandlerInit /\ [][HandlerNext]_vars

TypeOK ==
    /\ committed \in 0 .. MaxLog
    /\ position \in 0 .. MaxLog
    /\ committed <= position \/ consumer = "none"
    /\ pc \in {"idle", "fetch", "handler", "returned", "raised"}

\* --------------------------------------------------- KafkaProducerManager
\* Topics the services publish to, and the keys a caller can pass: the string
\* of a user id, the empty string, or no key (None).
Topics == {"user.registered", "user.login"}
KeyUsers == {"u1", "u2"}

\* AuthService.register passes key=str(user.id).
RegisterKey(u) == u

PartitionKeys == {RegisterKey(u) : u \in KeyUsers} \cup {"", "None"}

\* Variant: the key serializer sends every message without a key.
SerializeKeyDropped(k) == "None"

\* key_serializer: `k.encode("utf-8") if k else None`; the bytes of a string
\* are written as the string, None and the empty string give None.
SerializeKey(k) == IF k \in {"", "None"} THEN "None" ELSE k

\* Partitions of a topic (kafka_topic_partitions).
NumPartitions == 3

\* The client's hash of the key bytes: a fixed function of the bytes.
KeyHash(b) ==
    CASE b = "u1" -> 7
      [] b = "u2" -> 5
      [] OTHER -> 0

\* The client's partitioner: the hash of the key bytes modulo the number of
\* partitions; any partition for a message without key bytes.
PartitionsFor(b) ==
    IF b = "None" THEN 0 .. (NumPartitions - 1) ELSE {KeyHash(b) % NumPartitions}

\* Variant: start() creates a client whatever _producer holds.
NeedsClientAlways(p) == TRUE

\* Line 21, `if self._producer is None`.
NeedsClient(p) == p = "none"

\* start(): with no client, creates one and awaits its start(); ok says
\* whether the broker was reached.  A client whose start() raised stays in
\* _producer.  A client that is replaced is not stopped.
ProducerStart(ok) ==
    /\ IF NeedsClient(producer)
       THEN IF ok
            THEN /\ opened < MaxConns
                 /\ opened' = opened + 1
                 /\ conn' = opened + 1
                 /\ conns' = conns \cup {opened + 1}
                 /\ producer' = "started"
                 /\ call' = [op |-> "start", res |-> "ok"]
            ELSE /\ producer' = "created"
                 /\ conn' = 0
                 /\ call' = [op |-> "start", res |-> "connection_error"]
                 /\ UNCHANGED <<conns, opened>>
       ELSE /\ call' = [op |-> "start", res |-> "ok"]
            /\ UNCHANGED <<producer, conn, conns, opened>>
    /\ UNCHANGED <<msgs, pipelineVars>>
    /\ UNCHANGED <<envelopeVars, registrationVars>>

\* Variant: stop() keeps the stopped client in _producer.
ReleasedProducerKept == "created"

\* Line 34, `self._producer = None`.
ReleasedProducer == "none"

\* The client's stop() waits for every message it still holds: each is
\* acknowledged by the broker or fails (those in lost).
Pending(ms) == {i \in DOMAIN ms : ms[i].fate = "pending"}
Flushed(ms, lost) ==
    [i \in DOMAIN ms |->
        IF ms[i].fate # "pending" THEN ms[i]
        ELSE [ms[i] EXCEPT !.fate = IF i \in lost THEN "lost" ELSE "accepted"]]

\* stop(): with a client, stops it (flush, connection closed) and clears
\* _producer; without one, nothing.
ProducerStop ==
    /\ IF producer # "none"
       THEN /\ producer' = ReleasedProducer
            /\ conn' = 0
            /\ conns' = conns \ {conn}
            /\ \E lost \in SUBSET Pending(msgs) : msgs' = Flushed(msgs, lost)
       ELSE UNCHANGED <<producer, conn, conns, msgs>>
    /\ call' = [op |-> "stop", res |-> "ok"]
    /\ UNCHANGED <<opened, pipelineVars>>
    /\ UNCHANGED <<envelopeVars, registrationVars>>

\* Variant: send_event does not look at _producer.
ProducerMissingNever(p) == FALSE

\* Line 46, `if not self._producer`.
ProducerMissing(p) == p = "none"

\* send_event(topic, event_data, key): RuntimeError without a client; else
\* `await self._producer.send(...)`, which returns once the client has put
\* the message into its batch for the partition (enqueued says whether it
\* did) and hands back a future that nobody awaits.
SendOutcome(t, k) ==
    IF ProducerMissing(producer)
    THEN /\ msgs' = Append(msgs, [topic |-> t, key |-> k, part |-> -1,
                                  res |-> "not_started", fate |-> "none"])
         /\ call' = [op |-> "send", res |-> "not_started"]
    ELSE \E enqueued \in BOOLEAN, p \in PartitionsFor(SerializeKey(k)) :
           IF producer = "started" /\ enqueued
           THEN /\ msgs' = Append(msgs, [topic |-> t, key |-> k, part |-> p,
                                         res |-> "ok", fate |-> "pending"])
                /\ call' = [op |-> "send", res |-> "ok"]
           ELSE /\ msgs' = Append(msgs, [topic |-> t, key |-> k, part |-> -1,
                                         res |-> "raised", fate |-> "none"])
                /\ call' = [op |-> "send", res |-> "raised"]

SendEvent(t, k) ==
    /\ Len(msgs) < MaxSends
    /\ SendOutcome(t, k)
    /\ UNCHANGED <<producer, conn, conns, opened, pipelineVars>>
    /\ UNCHANGED <<envelopeVars, registrationVars>>

\* The client's sender task: a message of a batch is acknowledged by the
\* broker, or its delivery fails and the error is set on the future.
Deliver(i, acked) ==
    /\ i \in DOMAIN msgs
    /\ msgs[i].fate = "pending"
    /\ msgs' = [msgs EXCEPT ![i].fate = IF acked THEN "accepted" ELSE "lost"]
    /\ UNCHANGED <<producer, conn, conns, opened, call, pipelineVars>>
    /\ UNCHANGED <<envelopeVars, registrationVars>>

ProducerNext ==
    \/ \E ok \in BOOLEAN : ProducerStart(ok)
    \/ ProducerStop
    \/ \E t \in Topics, k \in PartitionKeys : SendEvent(t, k)
    \/ \E i \in 1 .. MaxSends, acked \in BOOLEAN : Deliver(i, acked)

ProducerSpec == Init /\ [][ProducerNext]_vars

\* ------------------------------------------------- AuthService.register
NoMsg == 0
Registering == {i \in DOMAIN regs : regs[i].res = "committed"}

\* Lines 55 and 59: email_exists / username_exists select the row by the
\* lowercased value the request validators already lowercased, so a request
\* for a registered user finds that user's row.
UserExists(u) == u \in users

\* register, lines 54-75: AlreadyExistsError when the email or username is
\* taken; else the row is created (flush) and the session committed, either
\* of which can raise. On success the call goes on to the publish.
RegisterCommit(u) ==
    /\ Len(regs) < MaxRegs
    /\ Registering = {}
    /\ IF UserExists(u)
       THEN /\ regs' = Append(regs, [user |-> u, res |-> "already_exists", msg |-> NoMsg])
            /\ UNCHANGED users
       ELSE \E ok \in BOOLEAN :
              IF ok
              THEN /\ users' = users \cup {u}
                   /\ regs' = Append(regs, [user |-> u, res |-> "committed", msg |-> NoMsg])
              ELSE /\ regs' = Append(regs, [user |-> u, res |-> "db_error", msg |-> NoMsg])
                   /\ UNCHANGED users
    /\ UNCHANGED <<pipelineVars, publisherVars, envelopeVars>>

\* Variant: register catches the publish error and returns the tokens.
OnPublishErrorSwallowed == "ok"

\* Lines 94-98 stand outside any try: what send_event raises leaves register.
OnPublishError == "publish_error"

\* register, lines 83-108: send_event on the module's producer with topic
\* "user.registered" and key str(user.id); when it returns, the tokens are
\* generated and the call returns (user, tokens).
RegisterPublish(i) ==
    /\ i \in Registering
    /\ Len(msgs) < MaxSends
    /\ SendOutcome("user.registered", RegisterKey(regs[i].user))
    /\ regs' = [regs EXCEPT ![i].res = IF call'.res = "ok" THEN "ok" ELSE OnPublishError,
                            ![i].msg = Len(msgs')]
    /\ UNCHANGED <<producer, conn, conns, opened, users, pipelineVars, envelopeVars>>

\* The user service: its producer's lifecycle, register requests, and the
\* producer client's sender task.
RegisterNext ==
    \/ \E ok \in BOOLEAN : ProducerStart(ok)
    \/ ProducerStop
    \/ \E u \in KeyUsers : RegisterCommit(u)
    \/ \E i \in 1 .. MaxRegs : RegisterPublish(i)
    \/ \E i \in 1 .. MaxSends, acked \in BOOLEAN : Deliver(i, acked)

RegisterSpec == Init /\ [][RegisterNext]_vars

\* ------------------------------------------------------------- BaseEvent
\* Python values, tagged with their type: a UUID and the string that spells
\* it are different values, as are a datetime and its ISO string.
Str(x) == [t |-> "str", v |-> x]
Uuid(x) == [t |-> "uuid", v |-> x]
Time(x) == [t |-> "datetime", v |-> x]
None == [t |-> "none", v |-> "null"]
Absent == [t |-> "absent", v |-> ""]

\* Two of the concrete event classes, with the defaults of their event_type
\* and service fields and the fields they require.
Subtypes == {"UserRegisteredEvent", "UserLoginEvent"}
TypeOf(c) == IF c = "UserRegisteredEvent" THEN "user.registered" ELSE "user.login"
ServiceOf(c) == "user-service"
HasEmail(c) == c = "UserRegisteredEvent"

\* uuid4() and utcnow() of the default factories.
FreshIds == {"e1", "e2"}
Now == "t1"

\* metadata: Dict[str, Any], any value under a string key.
MetaKeys == {"request_id"}
MetaValues == {Str("r1"), Uuid("u1"), Time("t0")}
Metadatas == UNION {[K -> MetaValues] : K \in SUBSET MetaKeys}

\* Keyword arguments of a direct construction.
Kwargs ==
    [event_id : {Absent},
     event_type : {Absent, Str("user.registered"), Str("user.login")},
     timestamp : {Absent},
     service : {Absent, Str("course-service")},
     version : {Absent},
     correlation_id : {Absent, None, Uuid("c1")},
     user_id : {Uuid("u1"), Str("u1")},
     email : {Absent, Str("a@b.c")},
     metadata : Metadatas]

\* A field's default applies when the argument is not given.
OrDefault(x, d) == IF x.t = "absent" THEN d ELSE x

\* Validation of a UUID field and of a datetime field: the object itself, or
\* the string that spells it.
AsUuid(x) == IF x.t = "str" THEN Uuid(x.v) ELSE x
AsTime(x) == IF x.t = "str" THEN Time(x.v) ELSE x

\* event_type and service: `Field(default=..., frozen=True)`; frozen forbids
\* assignment to the field of an instance, the constructor takes an argument
\* as for any field with a default.
FixedField(x, d) == OrDefault(x, d)

\* cls(**kw): the instance, or a ValidationError when a required field is
\* missing; arguments the class has no field for are ignored.
Validate(c, kw, id) ==
    IF HasEmail(c) /\ kw.email.t = "absent"
    THEN [cls |-> "invalid"]
    ELSE [cls |-> c,
          event_id |-> AsUuid(OrDefault(kw.event_id, Uuid(id))),
          event_type |-> FixedField(kw.event_type, Str(TypeOf(c))),
          timestamp |-> AsTime(OrDefault(kw.timestamp, Time(Now))),
          service |-> FixedField(kw.service, Str(ServiceOf(c))),
          version |-> OrDefault(kw.version, Str("1.0")),
          correlation_id |-> AsUuid(OrDefault(kw.correlation_id, None)),
          user_id |-> AsUuid(kw.user_id),
          email |-> IF HasEmail(c) THEN kw.email ELSE Absent,
          metadata |-> kw.metadata]

\* model_dump(mode="json") of one value: a UUID and a datetime become their
\* strings, whatever the declared type of the field.
ToJson(x) == IF x.t \in {"uuid", "datetime"} THEN Str(x.v) ELSE x

\* to_kafka_message: self.model_dump(mode="json").
ToKafkaMessage(e) ==
    [event_id |-> ToJson(e.event_id),
     event_type |-> ToJson(e.event_type),
     timestamp |-> ToJson(e.timestamp),
     service |-> ToJson(e.service),
     version |-> ToJson(e.version),
     correlation_id |-> ToJson(e.correlation_id),
     user_id |-> ToJson(e.user_id),
     email |-> ToJson(e.email),
     metadata |-> [k \in DOMAIN e.metadata |-> ToJson(e.metadata[k])]]

\* from_kafka_message: cls(**message).
FromKafkaMessage(c, m) == Validate(c, m, "e1")

\* A service constructs an event of class c.
Construct(c, kw, id) ==
    /\ event = NoEvent
    /\ event' = Validate(c, kw, id)
    /\ UNCHANGED <<message, decoded, pipelineVars, publisherVars,
                   registrationVars>>

\* The event is serialized for the wire.
ToKafka ==
    /\ event.cls \in Subtypes
    /\ message = NoEvent
    /\ message' = ToKafkaMessage(event)
    /\ UNCHANGED <<event, decoded, pipelineVars, publisherVars,
                   registrationVars>>

\* A reader builds an instance of class c from the message.
FromKafka(c) ==
    /\ message # NoEvent
    /\ decoded = NoEvent
    /\ users = {}
    /\ regs = <<>>
    /\ decoded' = FromKafkaMessage(c, message)
    /\ UNCHANGED <<event, message, pipelineVars, publisherVars,
                   registrationVars>>

EnvelopeNext ==
    \/ \E c \in Subtypes, kw \in Kwargs, id \in FreshIds : Construct(c, kw, id)
    \/ ToKafka
    \/ \E c \in Subtypes : FromKafka(c)

EnvelopeSpec == Init /\ [][EnvelopeNext]_vars

\* ------------------------------------------------------------ properties
Range(f) == {f[i] : i \in DOMAIN f}
Published(o) == o < Len(log)
ValidRegistered(o) ==
    /\ Published(o)
    /\ Rec(o).vkind = "dict"
    /\ Rec(o).event_type = "user.registered"
    /\ ValidUuid(Rec(o).user_id)
RowsOf(st, o) == {i \in DOMAIN st : st[i].event_id = Rec(o).event_id}
Notified(o) == Published(o) /\ RowsOf(store, o) # {}

\* The step in which the iterator hands the record at offset o to the loop
\* while _running is set.
FetchStep(o) ==
    /\ pc = "fetch"
    /\ running
    /\ position = o
    /\ position' = o + 1
    /\ Published(o)
    /\ Rec(o).vkind # "malformed"

\* The step in which route_event runs for the record at offset o.
RouteStep(o) ==
    /\ hpc[o] = "route"
    /\ hpc'[o] # "route"
    /\ pc' # "idle"

\* C1: an exception raised by the handler of a record is swallowed inside the
\* loop: consume neither raises nor returns, _running stays as it was and the
\* loop asks for the next record; every record with an envelope value that
\* the iterator returns while _running is set is passed to the handler.
C1_HandlerExceptionSwallowed ==
    [][/\ \A o \in Offsets :
            (RouteStep(o) /\ last' = [off |-> o, res |-> "raised"]) =>
                /\ hpc'[o] = "none"
                /\ pc' = "fetch"
                /\ running' = running
       /\ \A o \in Offsets :
            (FetchStep(o) /\ Rec(o).vkind = "dict") => hpc'[o] = "route"]_vars

\* Record 0 made the handler raise and record 1 is in its handler.
C1_Witness ==
    /\ last = [off |-> 0, res |-> "raised"]
    /\ hpc[1] = "route"

\* C2: after the handler returned for a user.registered event with every
\* store operation successful, the table holds a row of that event with
\* status sent, sent_at set, a title containing "Welcome", event_type
\* user.registered and the event's user_id and event_id.
C2_WelcomeNotificationPersisted ==
    last.res = "saved" =>
        \E i \in DOMAIN store :
            /\ store[i].status = "sent"
            /\ store[i].sent_at
            /\ "Welcome" \in Range(store[i].title)
            /\ store[i].event_type = "user.registered"
            /\ store[i].user_id = Rec(last.off).user_id
            /\ store[i].event_id = Rec(last.off).event_id

\* The handler returned for the second of two user.registered events, each
\* of which has its own row.
C2_Witness ==
    /\ last = [off |-> 1, res |-> "saved"]
    /\ hpc[1] = "none"
    /\ ValidRegistered(0)
    /\ ValidRegistered(1)
    /\ Cardinality(RowsOf(store, 0)) = 1
    /\ Cardinality(RowsOf(store, 1)) = 1

\* C3: the table holds at most one row per event_id, however often the
\* handler ran for that event.
C3_AtMostOneRowPerEvent ==
    \A i, j \in DOMAIN store : store[i].event_id = store[j].event_id => i = j

\* C4: a record the value deserializer rejects is skipped: no handler runs
\* for it and the loop goes on to the next record with _running still set.
C4_MalformedRecordSkipped ==
    [][(last' # last /\ last'.res = "undecodable") =>
          /\ pc' = "fetch"
          /\ running'
          /\ position' = position + 1
          /\ hpc' = hpc]_vars

\* C5: with nobody stopping the consumer and the store always succeeding,
\* every published user.registered event with a valid payload eventually has
\* its welcome row in the table, whatever precedes it on the partition.
C5_PublishedEventuallyNotified ==
    \A o \in Offsets : [](ValidRegistered(o) => <>Notified(o))

\* C6: a failing create, mark_as_sent or commit ends the handler without an
\* exception reaching the router or the loop and without touching the table,
\* and the table only ever grows by the row of a successful commit step,
\* which is a row in status sent.
C6_PersistenceFailureIsolated ==
    [][/\ \A o \in Offsets :
            (/\ hpc[o] \in {"create", "mark", "commit"}
             /\ hpc'[o] = "none"
             /\ last'.res \notin {"cancelled", "none"}) =>
                /\ last' = [off |-> o, res |-> "failed"]
                /\ pc' = "fetch"
                /\ store' = store
       /\ store' # store =>
            \E o \in Offsets :
                /\ hpc[o] = "commit"
                /\ hpc'[o] = "exit"
                /\ tx[o].status = "sent"
                /\ store' = Append(store, tx[o])]_vars

\* mark_as_sent failed: the handler is over, the loop fetches again and the
\* pending row waits in a session nobody will commit.
C6_Witness ==
    /\ last.res = "failed"
    /\ tx[last.off] # NoRow
    /\ tx[last.off].status = "pending"
    /\ pc = "fetch"
    /\ RowsOf(store, last.off) = {}

\* C7: for an event_type that is an unregistered string or is missing,
\* route_event returns without raising and runs no handler: no session is
\* opened and nothing is written.
C7_UnregisteredTypeDropped ==
    [][\A o \in Offsets :
          (RouteStep(o) /\ Rec(o).event_type \in {"unknown.thing", "None"}) =>
              /\ last' = [off |-> o, res |-> "dropped"]
              /\ hpc'[o] = "none"
              /\ sess' = sess
              /\ tx' = tx
              /\ store' = store]_vars

\* A record without event_type was dropped.
C7_Witness ==
    /\ last.res = "dropped"
    /\ Rec(last.off).event_type = "None"

\* C8: fetching and routing a record of type unknown.thing leaves the table
\* as it is and the loop alive: after the fetch the loop awaits the handler,
\* after the routing it asks for the next record, and _running is untouched.
C8_UnknownTypeLeavesStoreAndLoop ==
    [][\A o \in Offsets :
          (Published(o) /\ Rec(o).event_type = "unknown.thing") =>
              /\ FetchStep(o) =>
                    (pc' = "handler" /\ store' = store /\ running' /\ tx' = tx)
              /\ RouteStep(o) =>
                    (pc' = "fetch" /\ store' = store /\ running' = running /\ tx' = tx)]_vars

\* unknown.thing at offset 0 left no row, the event after it was processed.
C8_Witness ==
    /\ Published(0)
    /\ Rec(0).event_type = "unknown.thing"
    /\ last = [off |-> 1, res |-> "saved"]
    /\ Len(store) = 1
    /\ RowsOf(store, 0) = {}
    /\ RowsOf(store, 1) # {}

\* C9: the committed offset never moves back, and once it is past a record
\* the group is never handed that record again; if the record then has no
\* handler in flight and no row, it never gets one.
C9_CommittedRecordNeverRedelivered ==
    [][/\ committed' >= committed
       /\ \A o \in Offsets :
            o < committed =>
                /\ ~(pc = "fetch" /\ position = o /\ position' = o + 1)
                /\ hpc[o] = "none" => hpc'[o] = "none"
                /\ (hpc[o] = "none" /\ RowsOf(store, o) = {}) => RowsOf(store', o) = {}]_vars

\* After a restart the second process has caught up with the partition and a
\* valid user.registered record below the committed offset has no row.
C9_Witness ==
    /\ starts = 2
    /\ pc = "fetch"
    /\ position = Len(log)
    /\ \E o \in Offsets :
         /\ ValidRegistered(o)
         /\ o < committed
         /\ hpc[o] = "none"
         /\ RowsOf(store, o) = {}

\* C10: at most one handler invocation is in flight, and the loop is at its
\* fetch only when none is.
C10_SequentialProcessing ==
    /\ Cardinality(InFlight) <= 1
    /\ pc = "fetch" => InFlight = {}
    /\ InFlight # {} => pc = "handler"

\* Record 1 is on the partition and is not fetched while the handler of
\* record 0 awaits mark_as_sent.
C10_Witness ==
    /\ pc = "handler"
    /\ hpc[0] = "mark"
    /\ position = 1
    /\ Len(log) = 2

\* C11: a cancellation of the consume task while a handler invocation is in
\* flight lets the invocation run to its end (persistence and commit
\* included): consume returns only when no invocation is in flight.
C11_InFlightFinishedBeforeReturn ==
    [][(pc # "returned" /\ pc' = "returned") => InFlight = {}]_vars

\* The step in which stop() clears _running and asks the client to stop.
StopBeginStep == ~stopping /\ stopping'

\* The step in which the client's stop() completes and stop() clears _consumer.
StopFinishStep == stopping /\ ~stopping' /\ closed'

\* C12: stop() at any point of a consume in progress: once _running is
\* cleared no handler invocation begins; the steps of stop() leave the loop
\* and the invocation in flight where they are, so the invocation runs on to
\* its end; the loop never raises (consume raises only at its call) and has
\* _running cleared when it has returned; stop() ends with _consumer None.
C12_StopDuringConsume ==
    [][/\ \A o \in Offsets : (hpc[o] = "none" /\ hpc'[o] # "none") => running
       /\ StopBeginStep => (~running' /\ pc' = pc /\ hpc' = hpc /\ dbVars' = dbVars)
       /\ StopFinishStep =>
            (consumer' = "none" /\ pc' = pc /\ hpc' = hpc /\ dbVars' = dbVars)
       /\ pc' = "raised" => pc \in {"idle", "returned", "raised"}
       /\ pc' = "returned" => ~running']_vars

\* stop() has completed while the handler of record 0 awaits its commit, with
\* record 1 on the partition and not fetched.
C12_Witness ==
    /\ closed
    /\ consumer = "none"
    /\ ~running
    /\ pc = "handler"
    /\ hpc[0] = "commit"
    /\ position = 1
    /\ Len(log) = 2

\* The step in which a send_event call ends, and the entry it leaves.
SendStep == Len(msgs') = Len(msgs) + 1
Sent == msgs'[Len(msgs')]

\* C13: send_event on a producer that holds no client (start() not called
\* yet) fails with the not-started error, hands nothing to a client and
\* leaves the state of the producer as it was.
C13_SendBeforeStartFails ==
    [][(SendStep /\ producer = "none") =>
          /\ Sent.res = "not_started"
          /\ call' = [op |-> "send", res |-> "not_started"]
          /\ Sent.fate = "none"
          /\ Sent.part = -1
          /\ SubSeq(msgs', 1, Len(msgs)) = msgs
          /\ producer' = "none"
          /\ <<conn, conns, opened>>' = <<conn, conns, opened>>]_vars

\* send_event was called with the key of user u1 before any start().
C13_Witness ==
    /\ producer = "none"
    /\ opened = 0
    /\ call = [op |-> "send", res |-> "not_started"]
    /\ Len(msgs) = 1
    /\ msgs[1].key = RegisterKey("u1")
    /\ msgs[1].res = "not_started"

StartStep == call'.op = "start" /\ call' # call

\* C15: start() on a producer that is started opens no connection and leaves
\* the client and its connection as they are; a started producer holds
\* exactly one open connection, however often start() was called.
C15_StartIdempotent ==
    [][/\ (StartStep /\ producer = "started") =>
            /\ call'.res = "ok"
            /\ producer' = "started"
            /\ <<conn, conns, opened>>' = <<conn, conns, opened>>
       /\ producer' = "started" => (conn' # 0 /\ conns' = {conn'})]_vars

\* start(), a send_event that succeeded, and start() again: one connection
\* has been opened.
C15_Witness ==
    /\ call = [op |-> "start", res |-> "ok"]
    /\ producer = "started"
    /\ opened = 1
    /\ conns = {1}
    /\ Len(msgs) = 1
    /\ msgs[1].res = "ok"

\* C16: stop() ends normally in every state of the producer and leaves it
\* without a client and with its connection closed; a send_event that
\* follows fails with the not-started error and a start() that follows and
\* reaches the broker holds a connection that was not open before.
C16_StopSafeInEveryState ==
    [][/\ call'.op = "stop" =>
            /\ call'.res = "ok"
            /\ producer' = "none"
            /\ conn' = 0
            /\ conns' = {}
       /\ (call.op = "stop" /\ SendStep) => Sent.res = "not_started"
       /\ (call.op = "stop" /\ StartStep /\ call'.res = "ok") =>
            /\ producer' = "started"
            /\ conn' \notin 0 .. opened
            /\ conns' = {conn'}]_vars

\* start(), a send_event that succeeded, stop(), a send_event that failed
\* with the not-started error, and a start() that opened the second
\* connection.
C16_Witness ==
    /\ call = [op |-> "start", res |-> "ok"]
    /\ producer = "started"
    /\ opened = 2
    /\ conns = {2}
    /\ Len(msgs) = 2
    /\ msgs[1].res = "ok"
    /\ msgs[2].res = "not_started"

\* The send_event calls that handed their message to the client.
Enqueued == {i \in DOMAIN msgs : msgs[i].res = "ok"}

\* C18: two send_event calls on one topic with the same non-empty key are
\* assigned the same partition; the key register passes is the string of the
\* user's id, so the events of one user share a partition.
C18_SameKeySamePartition ==
    \A i, j \in Enqueued :
        (/\ msgs[i].topic = msgs[j].topic
         /\ msgs[i].key = msgs[j].key
         /\ msgs[i].key \in {RegisterKey(u) : u \in KeyUsers})
            => msgs[i].part = msgs[j].part

\* Two user.registered events keyed with the id of user u1 have been handed
\* to the client and acknowledged on one partition.
C18_Witness ==
    /\ Len(msgs) = 2
    /\ \A i \in {1, 2} :
         /\ msgs[i].topic = "user.registered"
         /\ msgs[i].key = RegisterKey("u1")
         /\ msgs[i].fate = "accepted"
    /\ msgs[1].part = msgs[2].part

\* The step in which the loop calls the handler with the record at offset o.
DispatchStep(o) == hpc[o] = "none" /\ hpc'[o] = "route"

\* C17: records of the partition are passed to the handler in publish order:
\* when the invocation for a record starts, no invocation for a record
\* published after it has run before (none has left its row in the table).
C17_InvocationsInPublishOrder ==
    [][\A a, b \in Offsets :
          (DispatchStep(a) /\ a < b /\ Published(b)) => RowsOf(store, b) = {}]_vars

\* C17, for one client: the record the loop passes to the handler is the one
\* at the client's position, it is passed when no invocation is in flight,
\* and the position moves one record forward at a time; the position moves
\* back only when a new client joins the group and resumes from the
\* committed offset.  So between two starts the invocations start, and end,
\* in publish order.
C17_InOrderWithinOneClient ==
    [][/\ \A o \in Offsets :
            DispatchStep(o) => (position = o /\ position' = o + 1 /\ InFlight = {})
       /\ position' # position =>
            \/ position' = position + 1
            \/ consumer = "none" /\ consumer' = "started" /\ position' = committed]_vars

\* In the first run of the service the invocation for record 0 has ended
\* with its row committed and the invocation for record 1 is in flight.
C17_Witness ==
    /\ starts = 1
    /\ last = [off |-> 0, res |-> "saved"]
    /\ RowsOf(store, 0) # {}
    /\ hpc[1] = "create"
    /\ position = 2

\* C19: the envelope round trip: the instance from_kafka_message builds, for
\* the class of e, from to_kafka_message(e) equals e field for field, null
\* optional fields and the metadata map included.
C19_EnvelopeRoundTrip ==
    (decoded # NoEvent /\ decoded.cls = event.cls) => decoded = event

\* C20: every instance of an event class carries the event_type and the
\* service of its class, whether it was constructed directly or built by
\* from_kafka_message.
C20_TypeAndServiceFixed ==
    \A e \in {event, decoded} :
        e.cls \in Subtypes =>
            /\ e.event_type = Str(TypeOf(e.cls))
            /\ e.service = Str(ServiceOf(e.cls))

\* The call that ended last is a start() that did not reach the broker.
StartFailed == call = [op |-> "start", res |-> "connection_error"]

\* C26: a start() of the producer that fails because the broker is
\* unreachable leaves the producer not started: send_event sees no client, a
\* send_event that follows fails with the not-started error, and a start()
\* that follows tries to connect again.
C26_FailedStartLeavesNotStarted ==
    [][/\ (StartStep /\ call'.res = "connection_error") => ProducerMissing(producer')
       /\ (StartFailed /\ SendStep) => Sent.res = "not_started"
       /\ (StartFailed /\ StartStep) =>
            (call'.res = "connection_error" \/ opened' = opened + 1)]_vars

\* C21: create, mark_as_sent and commit run in that order in one
\* transaction, so no committed row of the table has status pending or an
\* unset sent_at.
C21_NoCommittedPendingRow ==
    \A i \in DOMAIN store : store[i].status = "sent" /\ store[i].sent_at

\* The row of record 0 is committed and the row of record 1 is flushed,
\* still pending, in the open transaction of its handler.
C21_Witness ==
    /\ Len(store) = 1
    /\ store[1].event_id = Rec(0).event_id
    /\ hpc[1] = "mark"
    /\ tx[1].status = "pending"

\* C22: the session of a handler invocation is closed (committed or rolled
\* back) before the invocation returns, on every path: a record whose
\* handler is not running has no open session, so none is open when the
\* next handler starts.
C22_SessionScopedToInvocation ==
    \A o \in Offsets : hpc[o] = "none" => sess[o] = "none"

\* C23: a cancellation of the consume task makes consume return, not raise,
\* with _running cleared; whichever way the loop is left (break after
\* stop(), end of a stopped client's iteration, cancellation, an error of
\* the iterator), consume returns and _running is False afterwards.
C23_ConsumeExitsCleanly ==
    [][/\ (last' # last /\ last'.res = "cancelled") =>
            (pc' = "returned" /\ ~running')
       /\ (pc \in {"fetch", "handler"} /\ pc' \notin {"fetch", "handler"}) =>
            (pc' \in {"returned", "idle"} /\ ~running')]_vars

\* The consume task was cancelled while the handler of record 0 awaited
\* mark_as_sent; the client is still started.
C23_Witness ==
    /\ last = [off |-> 0, res |-> "cancelled"]
    /\ pc = "returned"
    /\ ~running
    /\ consumer = "started"
    /\ sess[0] = "open"
    /\ tx[0].status = "pending"

\* The step in which a call of consume() raises, returns at once or enters
\* its loop.
ConsumeCallStep ==
    /\ pc \in {"idle", "returned", "raised"}
    /\ pc' # "idle"
    /\ <<pc, last>>' # <<pc, last>>
    /\ consumer' = consumer
    /\ stopping' = stopping

\* C24: consume on a manager that holds no client (start() not called, or
\* stop() completed) raises the not-started error: no handler is invoked,
\* no record is taken, the store is untouched and _running stays False.
C24_ConsumeBeforeStartFails ==
    [][(consumer = "none" /\ ConsumeCallStep) =>
          /\ pc' = "raised"
          /\ last'.res = "not_started"
          /\ ~running'
          /\ hpc' = hpc
          /\ position' = position
          /\ dbVars' = dbVars]_vars

\* After a run that handled record 0 and a completed stop(), consume was
\* called again and raised; record 1 waits on the partition.
C24_Witness ==
    /\ consumer = "none"
    /\ closed
    /\ pc = "raised"
    /\ last = [off |-> -1, res |-> "not_started"]
    /\ ~running
    /\ Len(store) = 1
    /\ position = 1
    /\ Len(log) = 2

\* C27: a start() of the consumer that fails leaves the manager without a
\* client, and consume on a manager whose client is not started raises the
\* not-started error.
C27_FailedStartLeavesNotStarted ==
    [][/\ (consumer = "none" /\ consumer' # "none") => consumer' = "started"
       /\ (consumer # "started" /\ ConsumeCallStep) =>
            (pc' = "raised" /\ last'.res = "not_started")]_vars

\* C25: the handler of a user.login event returns without raising and
\* leaves the store as it is: no session is opened, no row is created,
\* updated or committed.
C25_LoginHasNoPersistedEffect ==
    [][\A o \in Offsets :
          (RouteStep(o) /\ Rec(o).event_type = "user.login") =>
              /\ last' = [off |-> o, res |-> "login"]
              /\ hpc'[o] = "none"
              /\ pc' = "fetch"
              /\ dbVars' = dbVars]_vars

\* The welcome row of record 0 is in the table and the user.login event at
\* offset 1 has been handled.
C25_Witness ==
    /\ Len(log) = 2
    /\ Rec(1).event_type = "user.login"
    /\ last = [off |-> 1, res |-> "login"]
    /\ Len(store) = 1
    /\ pc = "fetch"
    /\ \A o \in Offsets : sess[o] = "none"

\* The user.registered record at offset o has a payload uuid.UUID rejects.
MalformedPayload(o) ==
    /\ Rec(o).vkind = "dict"
    /\ Rec(o).event_type = "user.registered"
    /\ Rec(o).user_id \notin Users \/ Rec(o).event_id = BadEventId

PublishedFor(u) ==
    {j \in DOMAIN msgs : /\ msgs[j].topic = "user.registered"
                         /\ msgs[j].key = RegisterKey(u)
                         /\ msgs[j].fate \in {"pending", "accepted"}}

\* C28: every user.registered event on the topic carries the id of a user
\* whose row is committed, and every register call that returned the tokens
\* has published exactly one user.registered event for its user.
C28_PublishedOnceAfterCommit ==
    /\ \A j \in DOMAIN msgs :
          msgs[j].topic = "user.registered" /\ msgs[j].res = "ok"
              => \E u \in users : msgs[j].key = RegisterKey(u)
    /\ \A i \in DOMAIN regs :
          regs[i].res = "ok" => Cardinality(PublishedFor(regs[i].user)) = 1

RegisterStep == Len(regs') = Len(regs) + 1
PublishStep == \E i \in Registering : regs'[i].res # "committed"

\* C29: when send_event raises in register, the call ends with that error
\* and without tokens while the user's row stays committed; a later register
\* for the same user ends with AlreadyExistsError and sends nothing; and no
\* user.registered event is enqueued for that user in any later state.
C29_PublishFailurePropagates ==
    [][ /\ users \subseteq users'
        /\ \A i \in Registering :
              regs'[i].res # "committed" /\ call'.res # "ok"
                  => regs'[i].res = "publish_error" /\ regs[i].user \in users'
        /\ \A i \in DOMAIN regs : regs[i].res = "publish_error" =>
              /\ regs'[i] = regs[i]
              /\ RegisterStep /\ regs'[Len(regs')].user = regs[i].user
                    => regs'[Len(regs')].res = "already_exists" /\ msgs' = msgs
              /\ \A j \in DOMAIN msgs' :
                    msgs'[j].key = RegisterKey(regs[i].user) => msgs'[j].res # "ok"
      ]_vars

\* A register whose publish raised, followed by a retry for the same user
\* made with the producer started.
C29_Witness ==
    /\ Len(regs) = 2
    /\ regs[1].res = "publish_error"
    /\ regs[2] = [user |-> regs[1].user, res |-> "already_exists", msg |-> NoMsg]
    /\ regs[1].user \in users
    /\ msgs[regs[1].msg].res \in {"not_started", "raised"}
    /\ producer = "started"

====
